---- MODULE Spec2Model ----
(***************************************************************************)
(* The mutable N-gram trie of ngram_trie.c: nodes allocated from a pool,   *)
(* per-node successor arrays kept ordered by the surface string of the     *)
(* word, path lookup, Katz backoff, and the ARPA loader that populates it. *)
(*                                                                         *)
(* Pointers are node ids (positions in the pool), NULL is 0 and the root   *)
(* is node 1.  Word ids are 0-based as in the dictionary; the surface      *)
(* string of a word is a tuple of character codes so that strcmp is        *)
(* computed, not assumed.  C array positions are 0-based; the sequences    *)
(* that hold the arrays are 1-based, so position p is element p + 1.       *)
(***************************************************************************)
EXTENDS Integers, Sequences, FiniteSets, TLC

\* ------------------------------------------------------------- bounds
\* Pool size: the most nodes (root included) ever allocated.
MaxNodes == 4
\* The longest successor array a node may grow.
MaxSucc == 3
\* The longest history array handed to a query.
MaxHist == 2
\* The highest order an input declares or opens a section for.
MaxOrder == 3

\* Retains: the most calls of ngram_trie_retain.
MaxRefs == 2

\* -------------------------------------------------- program constants
NULL == 0
\* The word of a freshly allocated node, and of the root.
NoWord == -1
\* The smallest value of the 16-bit field.
Int16Min == -32768
\* dict_wordid of a string the dictionary does not hold.
BAD_S3WID == -1
\* logmath_log of a probability that is not positive (the log-math zero).
LogMathZero == -536870912

VARIABLES
    nodes,      \* pool of node records, indexed by node id
    freelist,   \* ids returned to the pool, most recently freed first
    dict,       \* dictionary: word id w has surface string dict[w + 1]
    gendict,    \* the dictionary is generated from the unigrams
    shift,      \* t->shift
    zero,       \* t->zero
    n,          \* t->n, the maximum N-gram order
    counts,     \* t->counts
    ld,         \* the running ngram_trie_read_arpa call: where it is, its locals
    ret,        \* the last API call: what was called, with what, and its result
    refcount,   \* t->refcount
    life,       \* what the trie holds: itself, its dictionary and log-math
                \* references, its node allocator and its counts array; and
                \* how often it was retained and released
    itor,       \* the iterator of the enumeration under way, and what
                \* ngram_trie_iter_get has returned from it so far
    lmath       \* t->lmath, known by logmath_log(t->lmath, MIN_LOGPROB)

vars ==
    <<nodes, freelist, dict, gendict, shift, zero, n, counts, ld, ret,
      refcount, life, itor, lmath>>

root == 1

\* ------------------------------------------------------- dictionary
\* Surface strings as tuples of character codes: "b", "<unk>", "a".
\* The ids are deliberately not in string order.
CallerDict == << <<98>>, <<60, 117, 110, 107, 62>>, <<97>> >>

\* The trie t that the functions below take as their first argument, as
\* the fields they read: its dictionary, its pool of nodes and its order.
Trie == [dict |-> dict, nodes |-> nodes, n |-> n]

dict_wordstr(d, w) == d[w + 1]

dict_wordid(d, s) ==
    IF \E i \in 1 .. Len(d) : d[i] = s
    THEN (CHOOSE i \in 1 .. Len(d) : d[i] = s) - 1
    ELSE BAD_S3WID

WordIds == 0 .. (Len(dict) - 1)

\* strcmp: the sign of the first differing unsigned character, a proper
\* prefix comparing less.
RECURSIVE strcmp(_, _)
strcmp(s1, s2) ==
    IF s1 = <<>> /\ s2 = <<>> THEN 0
    ELSE IF s1 = <<>> THEN -1
    ELSE IF s2 = <<>> THEN 1
    ELSE IF Head(s1) < Head(s2) THEN -1
    ELSE IF Head(s1) > Head(s2) THEN 1
    ELSE strcmp(Tail(s1), Tail(s2))

\* The comparison the successor arrays are ordered by, on the words of the
\* two nodes.
ngram_trie_nodeptr_cmp(t, wa, wb) ==
    strcmp(dict_wordstr(t.dict, wa), dict_wordstr(t.dict, wb))

\* ---------------------------------------------------- successor array
\* Binary search for the leftmost position at which a node with word w
\* could be inserted keeping the order (positions lo..hi, 0-based).
RECURSIVE bisect_left_loop(_, _, _, _, _)
bisect_left_loop(t, arr, w, lo, hi) ==
    IF lo >= hi THEN lo
    ELSE LET mid == (lo + hi) \div 2
         IN  IF ngram_trie_nodeptr_cmp(t, t.nodes[arr[mid + 1]].word, w) < 0
             THEN bisect_left_loop(t, arr, w, mid + 1, hi)
             ELSE bisect_left_loop(t, arr, w, lo, mid)

garray_bisect_left(t, arr, w) == bisect_left_loop(t, arr, w, 0, Len(arr))

\* Binary search for the rightmost such position.
RECURSIVE bisect_right_loop(_, _, _, _, _)
bisect_right_loop(t, arr, w, lo, hi) ==
    IF lo >= hi THEN lo
    ELSE LET mid == (lo + hi) \div 2
         IN  IF ngram_trie_nodeptr_cmp(t, w, t.nodes[arr[mid + 1]].word) < 0
             THEN bisect_right_loop(t, arr, w, lo, mid)
             ELSE bisect_right_loop(t, arr, w, mid + 1, hi)

garray_bisect_right(t, arr, w) == bisect_right_loop(t, arr, w, 0, Len(arr))

\* garray_insert at position pos (0-based); at the end it is an append.
garray_insert(arr, pos, x) ==
    SubSeq(arr, 1, pos) \o <<x>> \o SubSeq(arr, pos + 1, Len(arr))

\* garray_delete of positions [pos, pos + 1).
garray_delete(arr, pos) ==
    SubSeq(arr, 1, pos) \o SubSeq(arr, pos + 2, Len(arr))

\* ------------------------------------------------------------- pool
CanAlloc == freelist # <<>> \/ Len(nodes) < MaxNodes

\* listelem_malloc: the most recently freed element, else the next one
\* of the pool.
listelem_malloc == IF freelist # <<>> THEN Head(freelist) ELSE Len(nodes) + 1

PopFree == IF freelist # <<>> THEN Tail(freelist) ELSE freelist

\* What ngram_trie_node_alloc writes into the node it returns.
ngram_trie_node_alloc ==
    [word |-> NoWord, log_prob |-> 0, log_bowt |-> 0,
     history |-> NULL, successors |-> <<>>]

\* The pool with record rec in node id.
PoolWith(pool, id, rec) ==
    IF id = Len(pool) + 1 THEN Append(pool, rec) ELSE [pool EXCEPT ![id] = rec]

\* ------------------------------------------------------------ lookup
\* The nodes that can be reached from the root through successor arrays.
RECURSIVE ReachFrom(_, _)
ReachFrom(S, fuel) ==
    LET T == S \cup {nodes[p[1]].successors[p[2]] :
                       p \in {q \in S \X (1 .. Len(nodes)) :
                                q[2] <= Len(nodes[q[1]].successors)}}
    IN  IF fuel = 0 \/ T = S THEN S ELSE ReachFrom(T, fuel - 1)

Reach == ReachFrom({root}, Len(nodes))

ngram_trie_successor_pos(t, h, w) ==
    garray_bisect_left(t, t.nodes[h].successors, w)

\* A variant of ngram_trie_successor that hands back h itself where the code
\* returns NULL, so that a descent never falls off the tree.
successor_or_self(t, h, w) ==
    LET pos == ngram_trie_successor_pos(t, h, w)
    IN  IF pos >= Len(t.nodes[h].successors) THEN h
        ELSE t.nodes[h].successors[pos + 1]

\* ngram_trie_successor: the entry at the bisect-left position, NULL when
\* that position is past the end.
ngram_trie_successor(t, h, w) ==
    LET pos == ngram_trie_successor_pos(t, h, w)
    IN  IF pos >= Len(t.nodes[h].successors) THEN NULL
        ELSE t.nodes[h].successors[pos + 1]

\* The history-descent loop of ngram_trie_ngram_v followed by the final
\* successor lookup.  The loop tests n_hist and never changes it.  budget
\* counts the iterations left before the search is reported as still
\* running (done = FALSE); it is not part of the program.
RECURSIVE ngram_v_loop(_, _, _, _, _, _)
ngram_v_loop(t, node, w, hist, n_hist, budget) ==
    IF n_hist > 0
    THEN IF budget = 0 THEN [node |-> NULL, done |-> FALSE]
         ELSE LET nextwid == hist[n_hist]
                  nx == ngram_trie_successor(t, node, nextwid)
              IN  IF nx = NULL THEN [node |-> NULL, done |-> TRUE]
                  ELSE ngram_v_loop(t, nx, w, hist, n_hist, budget - 1)
    ELSE [node |-> ngram_trie_successor(t, node, w), done |-> TRUE]

\* More iterations than a descent through a tree of this pool can take.
LoopBudget(t) == Len(t.nodes) + 1

ngram_trie_ngram_v(t, w, hist, n_hist) ==
    LET nh == IF n_hist > t.n - 1 THEN t.n - 1 ELSE n_hist
    IN  ngram_v_loop(t, root, w, hist, nh, LoopBudget(t))

RECURSIVE Pow2(_)
Pow2(k) == IF k = 0 THEN 1 ELSE 2 * Pow2(k - 1)

\* x << t->shift
Unshift(x) == x * Pow2(shift)

\* ngram_trie_bowt_v(t, w, hist, n_hist)
RECURSIVE ngram_trie_bowt_v(_, _, _, _)
ngram_trie_bowt_v(t, w, hist, n_hist) ==
    LET r == ngram_trie_ngram_v(t, w, hist, n_hist)
    IN  IF ~r.done THEN [val |-> 0, done |-> FALSE]
        ELSE IF r.node # NULL
        THEN [val |-> Unshift(t.nodes[r.node].log_bowt), done |-> TRUE]
        ELSE IF n_hist > 0
        THEN ngram_trie_bowt_v(t, hist[1], Tail(hist), n_hist - 1)
        ELSE [val |-> 0, done |-> TRUE]

\* ngram_trie_prob_v(t, &n_used, w, hist, n_hist): the value returned and
\* the value left in n_used.
RECURSIVE ngram_trie_prob_v(_, _, _, _)
\* A variant of ngram_trie_prob_v that counts one word more on an exact hit.
prob_v_overcount(t, w, hist, n_hist) ==
    LET r == ngram_trie_ngram_v(t, w, hist, n_hist)
    IN  IF ~r.done THEN [val |-> 0, n_used |-> n_hist + 1, done |-> FALSE]
        ELSE IF r.node # NULL
        THEN [val |-> Unshift(t.nodes[r.node].log_prob), n_used |-> n_hist + 2,
              done |-> TRUE]
        ELSE IF n_hist > 0
        THEN LET bong == ngram_trie_prob_v(t, w, hist, n_hist - 1)
                 pong == ngram_trie_bowt_v(t, hist[1], Tail(hist), n_hist - 1)
             IN  [val |-> bong.val + pong.val, n_used |-> bong.n_used,
                  done |-> bong.done /\ pong.done]
        ELSE [val |-> Unshift(zero), n_used |-> 0, done |-> TRUE]

ngram_trie_prob_v(t, w, hist, n_hist) ==
    LET r == ngram_trie_ngram_v(t, w, hist, n_hist)
    IN  IF ~r.done THEN [val |-> 0, n_used |-> n_hist + 1, done |-> FALSE]
        ELSE IF r.node # NULL
        THEN [val |-> Unshift(t.nodes[r.node].log_prob), n_used |-> n_hist + 1,
              done |-> TRUE]
        ELSE IF n_hist > 0
        THEN LET bong == ngram_trie_prob_v(t, w, hist, n_hist - 1)
                 pong == ngram_trie_bowt_v(t, hist[1], Tail(hist), n_hist - 1)
             IN  [val |-> bong.val + pong.val, n_used |-> bong.n_used,
                  done |-> bong.done /\ pong.done]
        ELSE [val |-> Unshift(zero), n_used |-> 0, done |-> TRUE]

\* ------------------------------------------------------- construction
\* x >> k on a signed integer: division by 2^k rounding down.
ShiftRight(x, k) == x \div Pow2(k)

\* A variant of the loop of ngram_trie_init that goes on halving until the
\* floor fits in 15 bits.
RECURSIVE fit_zero_half_range(_, _)
fit_zero_half_range(z, sh) ==
    IF z < Int16Min \div 2 THEN fit_zero_half_range(ShiftRight(z, 1), sh + 1)
    ELSE [zero |-> z, shift |-> sh]

\* The loop of ngram_trie_init that fits the floor in 16 bits.
RECURSIVE FitZero(_, _)
FitZero(z, sh) ==
    IF z < Int16Min THEN FitZero(ShiftRight(z, 1), sh + 1)
    ELSE [zero |-> z, shift |-> sh]

\* logmath_log(lmath, MIN_LOGPROB) of the log-math context the tries are
\* built with: base 1.0001, the usual one.
LogFloors == {-460540}

\* A variant of the store that keeps the low 15 bits.
to_int15(x) == ((x + 16384) % 32768) - 16384

\* A store into an int16 field keeps the low 16 bits.
ToInt16(x) == ((x + 32768) % 65536) - 32768

Idle == [pc |-> "idle", n |-> 0, last_history |-> NULL]

\* A call's record: the function, its node and word arguments (mutation
\* API) or the length of its history argument (queries), the value it
\* returned and the value it left in n_used.
Ret(op, h, w, n_hist, res, n_used) ==
    [op |-> op, h |-> h, w |-> w, n_hist |-> n_hist, res |-> res,
     n_used |-> n_used]

\* A query leaves every field of the trie as it is, so the trie states
\* reached do not depend on the queries made: calls are issued from states
\* that are not a query's result, and every query is made in each of them.
QueryOps == {"successor", "ngram_v", "bowt_v", "prob_v", "hang"}

\* A call needs a trie that has not been torn down.
CanCall == life.t /\ ld.pc = "idle" /\ ret.op \notin QueryOps

\* No iterator: none was created yet.  live tells whether the iterator
\* exists (it is freed when the enumeration ends); made and arg tell which
\* function created it and with what; got tells whether
\* ngram_trie_iter_get was called at the current position, and seen lists
\* the nodes it has returned.  cur, pos and nostop are the fields of
\* ngram_trie_iter_t.
NoItor ==
    [live |-> FALSE, cur |-> NULL, pos |-> 0, nostop |-> FALSE,
     got |-> FALSE, made |-> "none", arg |-> 0, seen |-> <<>>]

\* What a new trie holds: itself, a reference to its dictionary and one to
\* its log-math, its node allocator (with every node and successor array
\* taken from it) and its counts array; it was retained and released zero
\* times.
Held ==
    [t |-> TRUE, dict |-> TRUE, lmath |-> TRUE, node_alloc |-> TRUE,
     counts |-> TRUE, retains |-> 0, releases |-> 0]

\* The state ngram_trie_init(d, lmath) returns: d is the caller's
\* dictionary or NULL.
ngram_trie_init(d_given, m) ==
    /\ dict = IF d_given THEN CallerDict ELSE <<>>
    /\ gendict = ~d_given
    /\ zero = FitZero(m, 0).zero
    /\ shift = FitZero(m, 0).shift
    /\ counts = <<>>
    /\ n = 0
    /\ nodes = <<ngram_trie_node_alloc>>
    /\ freelist = <<>>
    /\ ld = Idle
    /\ ret = Ret("init", NULL, NoWord, 0, 0, 0)
    /\ refcount = 1
    /\ life = Held
    /\ itor = NoItor
    /\ lmath = m

Init == \E d_given \in BOOLEAN, m \in LogFloors : ngram_trie_init(d_given, m)

\* ------------------------------------------------------- mutation API
trie_fields == <<dict, gendict, shift, zero, n, counts>>

\* What the trie operations and the loader leave alone: the reference
\* count, what the trie holds, the iterator, and the log-math.
handles == <<refcount, life, itor, lmath>>

\* ngram_trie_add_successor / ngram_trie_add_successor_ngram on the pool
\* of t: node ng, holding rec, is inserted into h's successor array at the
\* bisect-right position (garray_append when that is the end).
\* A variant of the insertion that puts the node into the successor array
\* of the root, whatever h is.
insert_under_root(t, h, ng, rec) ==
    LET pos == garray_bisect_right(t, t.nodes[root].successors, rec.word)
    IN  [PoolWith(t.nodes, ng, rec) EXCEPT
            ![root].successors = garray_insert(@, pos, ng)]

InsertSuccessor(t, h, ng, rec) ==
    LET pos == garray_bisect_right(t, t.nodes[h].successors, rec.word)
    IN  [PoolWith(t.nodes, ng, rec) EXCEPT
            ![h].successors = garray_insert(@, pos, ng)]

\* A variant of ngram_trie_add_successor that leaves the history of the
\* new node as ngram_trie_node_alloc set it.
add_successor_no_history(h, w) ==
    /\ CanCall
    /\ CanAlloc
    /\ Len(nodes[h].successors) < MaxSucc
    /\ LET ng == listelem_malloc
       IN  /\ nodes' = InsertSuccessor(Trie, h, ng,
                          [ngram_trie_node_alloc EXCEPT !.word = w])
           /\ ret' = Ret("add_successor", h, w, 0, ng, 0)
    /\ freelist' = PopFree
    /\ UNCHANGED <<trie_fields, ld, handles>>

ngram_trie_add_successor(h, w) ==
    /\ CanCall
    /\ CanAlloc
    /\ Len(nodes[h].successors) < MaxSucc
    /\ LET ng == listelem_malloc
       IN  /\ nodes' = InsertSuccessor(Trie, h, ng,
                          [ngram_trie_node_alloc EXCEPT !.word = w, !.history = h])
           /\ ret' = Ret("add_successor", h, w, 0, ng, 0)
    /\ freelist' = PopFree
    /\ UNCHANGED <<trie_fields, ld, handles>>

\* ngram_trie_add_successor_ngram(t, h, w) on a node w the caller built:
\* allocated with ngram_trie_node_alloc and given its word.  The function
\* inserts it and writes no field of it.
ngram_trie_add_successor_ngram(h, w) ==
    /\ CanCall
    /\ CanAlloc
    /\ Len(nodes[h].successors) < MaxSucc
    /\ LET ng == listelem_malloc
       IN  /\ nodes' = InsertSuccessor(Trie, h, ng,
                          [ngram_trie_node_alloc EXCEPT !.word = w])
           /\ ret' = Ret("add_successor_ngram", h, w, 0, 0, 0)
    /\ freelist' = PopFree
    /\ UNCHANGED <<trie_fields, ld, handles>>

\* ngram_trie_delete_successor: the node at the bisect-left position is
\* freed and taken out of the array.  The freed element is written as a
\* fresh one: nothing may read it until it is allocated again.
ngram_trie_delete_successor(h, w) ==
    /\ CanCall
    /\ LET pos == ngram_trie_successor_pos(Trie, h, w)
       IN  IF pos >= Len(nodes[h].successors)
           THEN /\ ret' = Ret("delete_successor", h, w, 0, -1, 0)
                /\ UNCHANGED <<nodes, freelist>>
           ELSE LET ng == nodes[h].successors[pos + 1]
                IN  /\ nodes' = [nodes EXCEPT
                                   ![h].successors = garray_delete(@, pos),
                                   ![ng] = ngram_trie_node_alloc]
                    /\ freelist' = <<ng>> \o freelist
                    /\ ret' = Ret("delete_successor", h, w, 0, 0, 0)
    /\ UNCHANGED <<trie_fields, ld, handles>>

\* ---------------------------------------------------------- query API
Hists == UNION {[1 .. k -> WordIds] : k \in 0 .. MaxHist}

Successor(h, w) ==
    /\ CanCall
    /\ ret' = Ret("successor", h, w, 0, ngram_trie_successor(Trie, h, w), 0)
    /\ UNCHANGED <<nodes, freelist, trie_fields, ld, handles>>

NgramV(w, hist) ==
    /\ CanCall
    /\ LET r == ngram_trie_ngram_v(Trie, w, hist, Len(hist))
       IN  ret' = Ret(IF r.done THEN "ngram_v" ELSE "hang", NULL, NoWord, Len(hist),
                      r.node, 0)
    /\ UNCHANGED <<nodes, freelist, trie_fields, ld, handles>>

BowtV(w, hist) ==
    /\ CanCall
    /\ LET r == ngram_trie_bowt_v(Trie, w, hist, Len(hist))
       IN  ret' = Ret(IF r.done THEN "bowt_v" ELSE "hang", NULL, NoWord, Len(hist),
                      r.val, 0)
    /\ UNCHANGED <<nodes, freelist, trie_fields, ld, handles>>

ProbV(w, hist) ==
    /\ CanCall
    /\ LET r == ngram_trie_prob_v(Trie, w, hist, Len(hist))
       IN  ret' = Ret(IF r.done THEN "prob_v" ELSE "hang", NULL, NoWord, Len(hist),
                      r.val, r.n_used)
    /\ UNCHANGED <<nodes, freelist, trie_fields, ld, handles>>

\* ------------------------------------------------------- ARPA loader
\* An input line, as the loader's tests see it:
\*   kind   "blank"      empty after trimming
\*          "data"       \data\
\*          "end"        \end\
\*          "marker"     \<k>-grams:
\*          "badmarker"  any other line that starts with a backslash
\*          "count"      ngram <k>=<c>
\*          "badcount"   starts with "ngram " and has no '=' or nothing after it
\*          "fields"     anything else
\*          "eof"        the end of the input (lineiter_next returned NULL)
\*   toks   its whitespace-separated fields, each with its string s and
\*          v = logmath_log(lmath, atof_c(s))
Line(kind, k, c, toks) == [kind |-> kind, k |-> k, c |-> c, toks |-> toks]

Tok(s, v) == [s |-> s, v |-> v]

\* ngram_trie_read_arpa returns status.
\* A variant of the return of ngram_trie_read_arpa that drops the status of
\* read_ngrams and reports success.
finish_ok(status) ==
    /\ ld' = Idle
    /\ ret' = Ret("read_arpa", NULL, NoWord, 0, 0, 0)

Finish(status) ==
    /\ ld' = Idle
    /\ ret' = Ret("read_arpa", NULL, NoWord, 0, status, 0)

Loading == Ret("loading", NULL, NoWord, 0, 0, 0)

\* skip_arpa_header, one line of it.  From idle this is the call of
\* ngram_trie_read_arpa and the first line lineiter_start read.  The
\* \data\ line is where read_ngram_counts starts: it resets the counts to
\* the single zerogram and passes over that line.
skip_arpa_header(line) ==
    /\ ld.pc \in {"idle", "header"}
    /\ ld.pc = "idle" => ret.op = "init"
    /\ CASE line.kind = "eof" ->
              /\ Finish(-1)
              /\ UNCHANGED counts
         [] line.kind = "data" ->
              /\ ld' = [ld EXCEPT !.pc = "counts"]
              /\ counts' = <<1>>
              /\ ret' = Loading
         [] OTHER ->
              /\ ld' = [ld EXCEPT !.pc = "header"]
              /\ ret' = Loading
              /\ UNCHANGED counts
    /\ UNCHANGED <<nodes, freelist, dict, gendict, shift, zero, n, handles>>

\* garray_expand_to(counts, ni + 1) then garray_put(counts, ni, &ci).
PutCount(cs, ni, ci) ==
    LET grown == IF Len(cs) >= ni + 1 THEN cs
                 ELSE cs \o [j \in 1 .. (ni + 1 - Len(cs)) |-> 0]
    IN  [grown EXCEPT ![ni + 1] = ci]

\* read_ngram_counts, one line of it; on the blank line it returns
\* garray_size(counts) - 1, which ngram_trie_read_arpa stores in t->n
\* before read_ngrams(t, li, 1) starts.  At the end of the input it
\* returns the same, and read_ngrams, finding no line, returns -1.
read_ngram_counts(line) ==
    /\ ld.pc = "counts"
    /\ CASE line.kind = "eof" ->
              /\ n' = Len(counts) - 1
              /\ Finish(-1)
              /\ UNCHANGED counts
         [] line.kind = "blank" ->
              /\ n' = Len(counts) - 1
              /\ ld' = [pc |-> "ngrams", n |-> 1, last_history |-> root]
              /\ ret' = Loading
              /\ UNCHANGED counts
         [] line.kind = "count" ->
              /\ counts' = PutCount(counts, line.k, line.c)
              /\ ret' = Loading
              /\ UNCHANGED <<n, ld>>
         [] line.kind = "badcount" ->
              /\ n' = -1
              /\ Finish(-1)
              /\ UNCHANGED counts
         [] OTHER ->
              /\ ret' = Loading
              /\ UNCHANGED <<n, ld, counts>>
    /\ UNCHANGED <<nodes, freelist, dict, gendict, shift, zero, handles>>

\* The walk of add_ngram_line over the cached last history: h follows the
\* history pointers while its word equals wids[i].  The value is the i the
\* loop ends with.
RECURSIVE CacheWalk(_, _, _, _, _)
CacheWalk(t, h, wids, i, nn) ==
    IF h # NULL /\ i < nn
    THEN IF t.nodes[h].word # wids[i] THEN i
         ELSE CacheWalk(t, t.nodes[h].history, wids, i + 1, nn)
    ELSE i

\* A variant of add_ngram_line that allocates the node before it looks the
\* history up and leaves it in the pool when the lookup fails.
add_ngram_line_alloc_first(t, toks, nn, lh, ng) ==
    LET nwords == Len(toks)
        out(what, d, l, pool) == [what |-> what, d |-> d, lh |-> l, pool |-> pool]
    IN
    IF nwords > nn + 2 THEN out("abort", t.dict, lh, t.nodes)
    ELSE IF nwords < nn + 1 THEN out("null", t.dict, lh, t.nodes)
    ELSE
    LET prob == toks[1].v
        bowt == IF nwords = nn + 2 THEN toks[nn + 2].v ELSE LogMathZero
        head == toks[nn + 1].s
        known == dict_wordid(t.dict, head) # BAD_S3WID
        d2 == IF ~known /\ gendict THEN Append(t.dict, head) ELSE t.dict
        w0 == dict_wordid(d2, head)
        hw == [i \in 1 .. (nn - 1) |-> dict_wordid(d2, toks[nn - i + 1].s)]
        t2 == [t EXCEPT !.dict = d2]
    IN
    IF w0 = BAD_S3WID THEN out("null", d2, lh, t.nodes)
    ELSE IF \E i \in 1 .. (nn - 1) : hw[i] = BAD_S3WID
    THEN out("null", d2, lh, t.nodes)
    ELSE
    LET i_end == CacheWalk(t2, lh, hw, 1, nn)
        lh2 == IF nn = 1 THEN lh
               ELSE IF i_end < nn
               THEN ngram_trie_ngram_v(t2, hw[1], Tail(hw), nn - 2).node
               ELSE lh
    IN
    IF lh2 = NULL
    THEN out("null", d2, lh2,
             IF ng = NULL THEN t.nodes
             ELSE PoolWith(t.nodes, ng, [ngram_trie_node_alloc EXCEPT !.word = w0]))
    ELSE out("node", d2, lh2,
             InsertSuccessor(t2, lh2, ng,
                 [ngram_trie_node_alloc EXCEPT
                     !.word = w0,
                     !.log_prob = ToInt16(ShiftRight(prob, shift)),
                     !.log_bowt = ToInt16(ShiftRight(bowt, shift)),
                     !.history = lh2]))

\* A variant of add_ngram_line that adds an unknown head word to whatever
\* dictionary the trie has.
add_ngram_line_grow_any(t, toks, nn, lh, ng) ==
    LET nwords == Len(toks)
        out(what, d, l, pool) == [what |-> what, d |-> d, lh |-> l, pool |-> pool]
    IN
    IF nwords > nn + 2 THEN out("abort", t.dict, lh, t.nodes)
    ELSE IF nwords < nn + 1 THEN out("null", t.dict, lh, t.nodes)
    ELSE
    LET prob == toks[1].v
        bowt == IF nwords = nn + 2 THEN toks[nn + 2].v ELSE LogMathZero
        head == toks[nn + 1].s
        known == dict_wordid(t.dict, head) # BAD_S3WID
        d2 == IF ~known THEN Append(t.dict, head) ELSE t.dict
        w0 == dict_wordid(d2, head)
        hw == [i \in 1 .. (nn - 1) |-> dict_wordid(d2, toks[nn - i + 1].s)]
        t2 == [t EXCEPT !.dict = d2]
    IN
    IF w0 = BAD_S3WID THEN out("null", d2, lh, t.nodes)
    ELSE IF \E i \in 1 .. (nn - 1) : hw[i] = BAD_S3WID
    THEN out("null", d2, lh, t.nodes)
    ELSE
    LET i_end == CacheWalk(t2, lh, hw, 1, nn)
        lh2 == IF nn = 1 THEN lh
               ELSE IF i_end < nn
               THEN ngram_trie_ngram_v(t2, hw[1], Tail(hw), nn - 2).node
               ELSE lh
    IN
    IF lh2 = NULL THEN out("null", d2, lh2, t.nodes)
    ELSE out("node", d2, lh2,
             InsertSuccessor(t2, lh2, ng,
                 [ngram_trie_node_alloc EXCEPT
                     !.word = w0,
                     !.log_prob = ToInt16(ShiftRight(prob, shift)),
                     !.log_bowt = ToInt16(ShiftRight(bowt, shift)),
                     !.history = lh2]))

\* add_ngram_line(t, buf, nn, wptr, wids, &last_history) on a line with the
\* fields toks, ng being the node ngram_trie_node_alloc would return.
\* what is "abort" (the assertion on the number of fields failed), "null"
\* (NULL is returned) or "node"; d, lh and pool are the dictionary,
\* *last_history and the pool it leaves.  wids[0] is w0 and wids[i] is
\* hw[i] for i >= 1.
add_ngram_line(t, toks, nn, lh, ng) ==
    LET nwords == Len(toks)
        out(what, d, l, pool) == [what |-> what, d |-> d, lh |-> l, pool |-> pool]
    IN
    IF nwords > nn + 2 THEN out("abort", t.dict, lh, t.nodes)
    ELSE IF nwords < nn + 1 THEN out("null", t.dict, lh, t.nodes)
    ELSE
    LET prob == toks[1].v
        bowt == IF nwords = nn + 2 THEN toks[nn + 2].v ELSE LogMathZero
        head == toks[nn + 1].s
        known == dict_wordid(t.dict, head) # BAD_S3WID
        d2 == IF ~known /\ gendict THEN Append(t.dict, head) ELSE t.dict
        w0 == dict_wordid(d2, head)
        hw == [i \in 1 .. (nn - 1) |-> dict_wordid(d2, toks[nn - i + 1].s)]
        t2 == [t EXCEPT !.dict = d2]
    IN
    IF w0 = BAD_S3WID THEN out("null", d2, lh, t.nodes)
    ELSE IF \E i \in 1 .. (nn - 1) : hw[i] = BAD_S3WID
    THEN out("null", d2, lh, t.nodes)
    ELSE
    LET i_end == CacheWalk(t2, lh, hw, 1, nn)
        lh2 == IF nn = 1 THEN lh
               ELSE IF i_end < nn
               THEN ngram_trie_ngram_v(t2, hw[1], Tail(hw), nn - 2).node
               ELSE lh
    IN
    IF lh2 = NULL THEN out("null", d2, lh2, t.nodes)
    ELSE out("node", d2, lh2,
             InsertSuccessor(t2, lh2, ng,
                 [ngram_trie_node_alloc EXCEPT
                     !.word = w0,
                     !.log_prob = ToInt16(ShiftRight(prob, shift)),
                     !.log_bowt = ToInt16(ShiftRight(bowt, shift)),
                     !.history = lh2]))

\* A variant of read_ngrams that starts a section anew on a marker of its
\* own order.
read_ngrams_marker_ge(line) ==
    /\ ld.pc = "ngrams"
    /\ CASE line.kind = "blank" ->
              /\ ret' = Loading
              /\ UNCHANGED <<nodes, freelist, dict, ld>>
         [] line.kind = "end" ->
              /\ Finish(0)
              /\ UNCHANGED <<nodes, freelist, dict>>
         [] line.kind = "marker" ->
              /\ IF line.k >= ld.n
                 THEN ld' = [pc |-> "ngrams", n |-> line.k,
                             last_history |-> IF line.k = 1 THEN root ELSE NULL]
                 ELSE ld' = ld
              /\ ret' = Loading
              /\ UNCHANGED <<nodes, freelist, dict>>
         [] line.kind \in {"badmarker", "data", "eof"} ->
              /\ Finish(-1)
              /\ UNCHANGED <<nodes, freelist, dict>>
         [] OTHER ->
              LET ng == IF CanAlloc THEN listelem_malloc ELSE NULL
                  r == add_ngram_line(Trie, line.toks, ld.n, ld.last_history, ng)
              IN  CASE r.what = "abort" ->
                         /\ ld' = [ld EXCEPT !.pc = "aborted"]
                         /\ ret' = Loading
                         /\ UNCHANGED <<nodes, freelist, dict>>
                    [] r.what = "null" ->
                         /\ dict' = r.d
                         /\ nodes' = r.pool
                         /\ Finish(-1)
                         /\ UNCHANGED freelist
                    [] r.what = "node" ->
                         /\ ng # NULL
                         /\ Len(nodes[r.lh].successors) < MaxSucc
                         /\ dict' = r.d
                         /\ nodes' = r.pool
                         /\ freelist' = PopFree
                         /\ ld' = [ld EXCEPT !.last_history = r.lh]
                         /\ ret' = Loading
    /\ UNCHANGED <<gendict, shift, zero, n, counts, handles>>

\* read_ngrams(t, li, ld.n), one line of it.  A marker for a higher order
\* makes it return that order, and ngram_trie_read_arpa calls it again with
\* it; the new call passes over the marker line.
read_ngrams(line) ==
    /\ ld.pc = "ngrams"
    /\ CASE line.kind = "blank" ->
              /\ ret' = Loading
              /\ UNCHANGED <<nodes, freelist, dict, ld>>
         [] line.kind = "end" ->
              /\ Finish(0)
              /\ UNCHANGED <<nodes, freelist, dict>>
         [] line.kind = "marker" ->
              /\ IF line.k > ld.n
                 THEN ld' = [pc |-> "ngrams", n |-> line.k,
                             last_history |-> IF line.k = 1 THEN root ELSE NULL]
                 ELSE ld' = ld
              /\ ret' = Loading
              /\ UNCHANGED <<nodes, freelist, dict>>
         [] line.kind \in {"badmarker", "data", "eof"} ->
              /\ Finish(-1)
              /\ UNCHANGED <<nodes, freelist, dict>>
         [] OTHER ->
              LET ng == IF CanAlloc THEN listelem_malloc ELSE NULL
                  r == add_ngram_line(Trie, line.toks, ld.n, ld.last_history, ng)
              IN  CASE r.what = "abort" ->
                         /\ ld' = [ld EXCEPT !.pc = "aborted"]
                         /\ ret' = Loading
                         /\ UNCHANGED <<nodes, freelist, dict>>
                    [] r.what = "null" ->
                         /\ dict' = r.d
                         /\ nodes' = r.pool
                         /\ Finish(-1)
                         /\ UNCHANGED freelist
                    [] r.what = "node" ->
                         /\ ng # NULL
                         /\ Len(nodes[r.lh].successors) < MaxSucc
                         /\ dict' = r.d
                         /\ nodes' = r.pool
                         /\ freelist' = PopFree
                         /\ ld' = [ld EXCEPT !.last_history = r.lh]
                         /\ ret' = Loading
    /\ UNCHANGED <<gendict, shift, zero, n, counts, handles>>

\* ------------------------------------------------------------ inputs
\* The words of the inputs, and the numeric fields with the value the
\* log-math service gives for each (base 1.0001).
WordA == Tok(<<97>>, LogMathZero)
WordB == Tok(<<98>>, LogMathZero)
WordUnk == Tok(<<60, 117, 110, 107, 62>>, LogMathZero)
NumM10 == Tok(<<45, 49, 46, 48>>, -23027)
NumM20 == Tok(<<45, 50, 46, 48>>, -46054)
NumM30 == Tok(<<45, 51, 46, 48>>, -69081)
NumM05 == Tok(<<45, 48, 46, 53>>, -11513)
NumM07 == Tok(<<45, 48, 46, 55>>, -16119)

Fields(toks) == Line("fields", 0, 0, toks)
Blank == Line("blank", 0, 0, <<>>)

\* The model of the scenario: unigrams a, b and <unk>, the bigram "a b",
\* and the same bigram carrying a backoff weight.
ModelLines ==
    {Fields(<<NumM10, WordA>>), Fields(<<NumM20, WordB>>),
     Fields(<<NumM30, WordUnk>>), Fields(<<NumM05, WordA, WordB>>),
     Fields(<<NumM05, WordA, WordB, NumM07>>)}

\* A well-formed input: \data\, the counts of orders 1, 2, ... in
\* ascending order, a blank line, then the sections in ascending order,
\* each with lines of the model, and \end\.
WellFormedHeader == {Line("data", 0, 0, <<>>)}

WellFormedCounts ==
    {Line("count", k, 3, <<>>) : k \in {Len(counts)} \cap (1 .. MaxOrder)}
        \cup {Blank}

WellFormedSection ==
    {Line("marker", k, 0, <<>>) : k \in {ld.n + 1} \cap (1 .. MaxOrder)}
        \cup {Line("end", 0, 0, <<>>)} \cup ModelLines

\* --------------------------------------------------- specifications
\* The mutation API and successor lookup on a trie that was not loaded.
Next ==
    \/ \E h \in Reach, w \in WordIds : ngram_trie_add_successor(h, w)
    \/ \E h \in Reach, w \in WordIds : ngram_trie_add_successor_ngram(h, w)
    \/ \E h \in Reach, w \in WordIds : ngram_trie_delete_successor(h, w)
    \/ \E h \in Reach, w \in WordIds : Successor(h, w)

Spec == Init /\ [][Next]_vars

\* A trie loaded from a well-formed input, extended through
\* ngram_trie_add_successor, and queried.
LmNext ==
    \/ \E l \in WellFormedHeader : skip_arpa_header(l)
    \/ \E l \in WellFormedCounts : read_ngram_counts(l)
    \/ \E l \in WellFormedSection : read_ngrams(l)
    \/ \E h \in Reach, w \in WordIds : ngram_trie_add_successor(h, w)
    \/ \E w \in WordIds, hist \in Hists : NgramV(w, hist)
    \/ \E w \in WordIds, hist \in Hists : BowtV(w, hist)
    \/ \E w \in WordIds, hist \in Hists : ProbV(w, hist)

LmSpec == Init /\ [][LmNext]_vars

\* ------------------------------------------------------ properties
\* What the statements below speak of, read off the trie itself and not
\* through the lookup functions.
Children(h) == {nodes[h].successors[i] : i \in 1 .. Len(nodes[h].successors)}

ChildrenWith(h, w) == {c \in Children(h) : nodes[c].word = w}

\* The words on the history chain from node h up to the root, newest first.
RECURSIVE HistOf(_)
HistOf(h) ==
    IF h = NULL \/ h = root THEN <<>>
    ELSE <<nodes[h].word>> \o HistOf(nodes[h].history)

\* No node on the path from x up to the root shares its word with a sibling.
RECURSIVE UniquePath(_)
UniquePath(x) ==
    x = root \/ ( /\ nodes[x].history # NULL
                  /\ Cardinality(ChildrenWith(nodes[x].history, nodes[x].word)) = 1
                  /\ UniquePath(nodes[x].history) )

\* The nodes for word w after the history hist (newest first).
PathNodes(w, hist) ==
    {x \in Reach \ {root} :
        nodes[x].word = w /\ nodes[x].history # NULL
            /\ HistOf(nodes[x].history) = hist}

\* C2: ngram_trie_successor(h, w) returns a child of h whose word is w when
\* there is one and NULL when there is none; it never returns a child with
\* another word.
C2_ExactMatch ==
    ret.op = "successor" =>
        IF ChildrenWith(ret.h, ret.w) = {} THEN ret.res = NULL
        ELSE ret.res \in ChildrenWith(ret.h, ret.w)

\* C3: in every state the successor array of every node lists words in
\* strictly increasing order of their surface strings, so no two children
\* of a node carry the same word.
C3_StrictlySorted ==
    \A h \in Reach : \A i, j \in 1 .. Len(nodes[h].successors) :
        i < j => strcmp(dict_wordstr(dict, nodes[nodes[h].successors[i]].word),
                        dict_wordstr(dict, nodes[nodes[h].successors[j]].word)) < 0

\* C9: ngram_trie_delete_successor(h, w) with no child of h carrying w
\* returns a negative status and leaves every successor array and every
\* node as it was, nothing freed.
C9_DeleteAbsentNoop ==
    [][(ret'.op = "delete_successor" /\ ChildrenWith(ret'.h, ret'.w) = {})
          => (ret'.res < 0 /\ nodes' = nodes /\ freelist' = freelist)]_vars

\* C10: ngram_trie_delete_successor(root, w) right after
\* ngram_trie_add_successor(root, w), w carried by no other child of root,
\* returns success, leaves root's array one shorter with the other
\* children in their order, and a lookup of w under root then finds nothing.
C10_InsertThenDelete ==
    [][(/\ ret.op = "add_successor" /\ ret.h = root
        /\ ret'.op = "delete_successor" /\ ret'.h = root /\ ret'.w = ret.w
        /\ ChildrenWith(root, ret.w) = {ret.res})
          => (/\ ret'.res = 0
              /\ Len(nodes'[root].successors) = Len(nodes[root].successors) - 1
              /\ nodes'[root].successors =
                     SelectSeq(nodes[root].successors, LAMBDA c : c # ret.res)
              /\ ngram_trie_successor(Trie', root, ret.w) = NULL)]_vars

\* C22: in every state the history of the root is NULL and every node in
\* the successor array of a node p has p as its history, whether it was
\* inserted by ngram_trie_add_successor or, as a node built beforehand, by
\* ngram_trie_add_successor_ngram.
C22_HistoryBackRef ==
    /\ nodes[root].history = NULL
    /\ \A p \in Reach : \A c \in Children(p) : nodes[c].history = p

\* C37: ngram_trie_add_successor(h, w) returns a node that was not in the
\* trie, with word w, history h, log_prob 0, log_bowt 0 and no successors;
\* the successor array of h is the one it was with the new node put in
\* somewhere, and no other node and no field of the trie changes.
C37_AddSuccessorFrame ==
    [][(ret'.op = "add_successor" /\ ngram_trie_add_successor(ret'.h, ret'.w))
          => LET h == ret'.h
                 ng == ret'.res
             IN  /\ ng \notin Reach
                 /\ nodes'[ng] = [word |-> ret'.w, log_prob |-> 0, log_bowt |-> 0,
                                  history |-> h, successors |-> <<>>]
                 /\ Len(nodes'[h].successors) = Len(nodes[h].successors) + 1
                 /\ SelectSeq(nodes'[h].successors, LAMBDA c : c # ng)
                       = nodes[h].successors
                 /\ nodes'[h] = [nodes[h] EXCEPT !.successors = nodes'[h].successors]
                 /\ \A x \in 1 .. Len(nodes) : x \notin {h, ng} => nodes'[x] = nodes[x]
                 /\ Len(nodes') \in {Len(nodes), ng}
                 /\ UNCHANGED trie_fields]_vars

\* C37, the case: the node was put in front of a child that h had.
C37_Witness ==
    /\ ret.op = "add_successor"
    /\ Len(nodes[ret.h].successors) >= 2
    /\ nodes[ret.h].successors[1] = ret.res

\* C1: every node x inserted by ngram_trie_add_successor along a path
\* root -> h_k -> ... -> h_1 -> w with k <= n - 1 is what
\* ngram_trie_ngram_v(w, <<h_1, ..., h_k>>, k) returns, for k = 0 and for
\* k >= 1 alike.
C1_RoundTrip ==
    \A x \in Reach \ {root} :
        LET hist == HistOf(nodes[x].history)
        IN  (Len(hist) <= n - 1 /\ UniquePath(x))
                => ngram_trie_ngram_v(Trie, nodes[x].word, hist, Len(hist)).node = x

\* C4: when the node x for (w | hist) exists, ngram_trie_prob_v(w, hist)
\* returns the log probability stored in x, shifted back, with no backoff.
C4_ExactHit ==
    \A x \in Reach \ {root} :
        LET hist == HistOf(nodes[x].history)
        IN  (Len(hist) <= n - 1 /\ UniquePath(x))
                => ngram_trie_prob_v(Trie, nodes[x].word, hist, Len(hist)).val
                       = Unshift(nodes[x].log_prob)

\* C5: when there is no node for (w | hist), hist is not empty and H is the
\* node of the full history, ngram_trie_prob_v(w, hist) is
\* ngram_trie_prob_v(w, hist without its oldest word) plus the backoff
\* weight stored in H.
C5_OneStepBackoff ==
    \A w \in WordIds, hist \in Hists :
        (/\ Len(hist) >= 1 /\ Len(hist) <= n - 1
         /\ PathNodes(w, hist) = {}
         /\ Cardinality(PathNodes(hist[1], Tail(hist))) = 1)
            => LET H == CHOOSE x \in PathNodes(hist[1], Tail(hist)) : TRUE
               IN  UniquePath(H) =>
                       ngram_trie_prob_v(Trie, w, hist, Len(hist)).val
                           = ngram_trie_prob_v(Trie, w, hist, Len(hist) - 1).val
                               + Unshift(nodes[H].log_bowt)

\* C6: for a word w with no unigram node under the root,
\* ngram_trie_prob_v(w, <<>>) returns the floor zero << shift and reports
\* n_used = 0, whatever other unigrams the root has.
C6_UnknownWordFloor ==
    \A w \in WordIds :
        ChildrenWith(root, w) = {}
            => LET r == ngram_trie_prob_v(Trie, w, <<>>, 0)
               IN  r.val = Unshift(zero) /\ r.n_used = 0

\* C7: on the tree-shaped tries built by ngram_trie_add_successor every
\* call of ngram_trie_ngram_v, ngram_trie_bowt_v and ngram_trie_prob_v
\* returns: the history descent and the backoff recursion come to an end.
C7_Terminates == ret.op # "hang"

\* C7, the case: a probability was asked with a history of two words of a
\* model of order three whose trie has a node two levels below the root.
C7_Witness ==
    /\ ret.op = "prob_v" /\ ret.n_hist >= 2 /\ n >= 3
    /\ \E x \in Reach : Len(HistOf(x)) >= 2

RECURSIVE word_hist_loop(_, _)
word_hist_loop(t, h) ==
    IF t.nodes[h].word = NoWord THEN <<>>
    ELSE <<t.nodes[h].word>> \o word_hist_loop(t, t.nodes[h].history)

ngram_trie_node_get_word_hist(t, ng) == word_hist_loop(t, t.nodes[ng].history)

\* C11: for every non-root node ng reachable from the root, the words
\* collected by ngram_trie_node_get_word_hist, handed with the word of ng
\* and their count to ngram_trie_ngram_v, lead back to ng.
C11_HistRoundTrip ==
    \A ng \in Reach \ {root} :
        UniquePath(ng) =>
            LET hist == ngram_trie_node_get_word_hist(Trie, ng)
            IN  ngram_trie_ngram_v(Trie, nodes[ng].word, hist, Len(hist)).node = ng

\* ------------------------------------------------------ backoff node
\* ngram_trie_backoff(t, ng).  The first call of
\* ngram_trie_node_get_word_hist is handed NULL for the buffer and stores
\* through it once for every history word of ng: with one word or more
\* that is a store through a null pointer, after which the call either
\* faults or goes on as if nothing had been stored.  The second call fills
\* hist, and ngram_trie_ngram_v is asked for one word less than it holds.
ngram_trie_backoff(ng) ==
    /\ CanCall
    /\ LET hist == ngram_trie_node_get_word_hist(Trie, ng)
           n_hist == Len(hist)
           bong == ngram_trie_ngram_v(Trie, nodes[ng].word, hist, n_hist - 1)
       IN  \/ /\ n_hist >= 1
              /\ ret' = Ret("fault", ng, nodes[ng].word, n_hist, NULL, 0)
           \/ ret' = Ret(IF bong.done THEN "backoff" ELSE "hang", ng,
                         nodes[ng].word, n_hist, bong.node, 0)
    /\ UNCHANGED <<nodes, freelist, trie_fields, ld, handles>>

\* A trie is built with ngram_trie_add_successor and asked for backoff
\* nodes.
BkNext ==
    \/ \E h \in Reach, w \in WordIds : ngram_trie_add_successor(h, w)
    \/ \E ng \in Reach \ {root} : ngram_trie_backoff(ng)

BkSpec == Init /\ [][BkNext]_vars

\* C36: for a node ng with word w and history <<h_1, ..., h_k>>, k >= 1,
\* ngram_trie_backoff returns the node for w after <<h_1, ..., h_(k-1)>>
\* when there is one and NULL when there is none, and never stores through
\* a null buffer; for a unigram node it returns NULL or the node itself and
\* never faults.  (Nodes that share no word with a sibling on their path.)
C36_BackoffNode ==
    [][\A ng \in Reach \ {root} :
          (UniquePath(ng) /\ ngram_trie_backoff(ng))
              => LET hist == HistOf(nodes[ng].history)
                     k == Len(hist)
                     shorter == PathNodes(nodes[ng].word, SubSeq(hist, 1, k - 1))
                 IN  /\ ret'.op = "backoff"
                     /\ k = 0 => ret'.res \in {NULL, ng}
                     /\ k >= 1 => IF shorter = {} THEN ret'.res = NULL
                                  ELSE ret'.res \in shorter]_vars

\* ------------------------------------------- loader on any input
\* A word the caller's dictionary does not hold.
WordC == Tok(<<99>>, LogMathZero)

\* Lines before the \data\ marker: header text, the marker, or the end of
\* the input.
HeaderLines ==
    {Line("data", 0, 0, <<>>), Line("eof", 0, 0, <<>>), Fields(<<WordA>>)}

\* Lines of the counts block: counts of any order in any sequence, a count
\* line with no '=', text, the blank line that ends the block, or the end
\* of the input.
CountLines ==
    {Line("count", k, 1, <<>>) : k \in 1 .. MaxOrder}
        \cup {Line("badcount", 0, 0, <<>>), Line("eof", 0, 0, <<>>),
              Fields(<<WordA>>), Blank}

\* N-gram lines: unigrams a, b, c; bigrams "a b", "b a", "c a"; the
\* trigram "a b a"; a line with a single field.
NgramLines ==
    {Fields(<<NumM10, WordA>>), Fields(<<NumM20, WordB>>),
     Fields(<<NumM30, WordC>>), Fields(<<NumM05, WordA, WordB>>),
     Fields(<<NumM05, WordB, WordA>>), Fields(<<NumM05, WordC, WordA>>),
     Fields(<<NumM05, WordA, WordB, WordA>>), Fields(<<NumM10>>)}

\* Lines of the N-gram sections: markers of any order in any sequence, a
\* backslash line that is no marker, \end\, blank lines, N-gram lines, or
\* the end of the input.
SectionLines ==
    {Line("marker", k, 0, <<>>) : k \in 1 .. MaxOrder}
        \cup {Line("badmarker", 0, 0, <<>>), Line("end", 0, 0, <<>>),
              Line("eof", 0, 0, <<>>), Blank}
        \cup NgramLines

LdNext ==
    \/ \E l \in HeaderLines : skip_arpa_header(l)
    \/ \E l \in CountLines : read_ngram_counts(l)
    \/ \E l \in SectionLines : read_ngrams(l)

LdSpec == Init /\ [][LdNext]_vars

\* The node add_ngram_line would be handed by the pool.
NextNode == IF CanAlloc THEN listelem_malloc ELSE NULL

\* A line of the section being read with enough fields for its order.
FullLine(l) ==
    /\ ld.pc = "ngrams" /\ l.kind = "fields"
    /\ Len(l.toks) \in {ld.n + 1, ld.n + 2}

\* The history words of an order-nn line, newest first, as ids of d.
LineHist(d, l, nn) == [i \in 1 .. (nn - 1) |-> dict_wordid(d, l.toks[nn - i + 1].s)]

\* C12: a line that add_ngram_line gives up on with a warning (unknown
\* head word with a dictionary that may not grow, unknown history word,
\* history not in the trie) is skipped: no node is inserted for it and the
\* load goes on with the next line.
C12_WarningSkipsLine ==
    [][\A l \in SectionLines :
          (/\ FullLine(l)
           /\ add_ngram_line(Trie, l.toks, ld.n, ld.last_history, NextNode).what = "null"
           /\ read_ngrams(l))
              => (nodes' = nodes /\ ld'.pc = "ngrams")]_vars

\* The lines that can be fatal: the end of the input, a backslash line that
\* is no marker, and the N-gram lines (too short for some section).
FatalLines ==
    {l \in HeaderLines \cup CountLines \cup SectionLines :
        l.kind \in {"eof", "badmarker", "fields"}}

\* C13: ngram_trie_read_arpa returns a negative value when the input ends
\* before \data\ or before \end\, when a section holds a backslash line
\* that is neither \end\ nor a marker, and when an N-gram line of the
\* order-n section has fewer than n + 1 fields.
C13_FatalNegative ==
    [][\/ ret'.op = "read_arpa" /\ ret'.res < 0
       \/ \A l \in FatalLines :
             ~(\/ l.kind = "eof" /\ (\/ skip_arpa_header(l) \/ read_ngram_counts(l)
                                     \/ read_ngrams(l))
               \/ l.kind = "badmarker" /\ read_ngrams(l)
               \/ l.kind = "fields" /\ ld.pc = "ngrams" /\ Len(l.toks) < ld.n + 1
                     /\ read_ngrams(l))]_vars

\* C13, the case: a load ended with a negative status on an input that
\* never showed \data\ (the counts were never reset).
C13_Witness == ret.op = "read_arpa" /\ ret.res < 0 /\ counts = <<>>

\* C14: in a well-formed input every N-gram line of a declared order, its
\* words known or addable and its history already in the trie, gets its
\* node and the load goes on, for every order up to N.
C14_LineInserted ==
    [][\A l \in SectionLines :
          (/\ FullLine(l) /\ ld.n <= n
           /\ gendict \/ dict_wordid(dict, l.toks[ld.n + 1].s) # BAD_S3WID
           /\ \A i \in 1 .. (ld.n - 1) : LineHist(dict, l, ld.n)[i] # BAD_S3WID
           /\ ld.n >= 2 =>
                 PathNodes(LineHist(dict, l, ld.n)[1],
                           Tail(LineHist(dict, l, ld.n))) # {}
           /\ read_ngrams(l))
              => (Len(nodes') = Len(nodes) + 1 /\ ld'.pc = "ngrams")]_vars

\* C15: the node inserted for a line of order n >= 2 becomes a successor
\* of the node whose path from the root spells the line's n - 1 history
\* words, whether the cached history or the full lookup is used (orders
\* within the declared ones).
C15_ParentSpellsHistory ==
    [][\A l \in SectionLines :
          (/\ FullLine(l) /\ ld.n >= 2 /\ ld.n <= n
           /\ read_ngrams(l) /\ Len(nodes') = Len(nodes) + 1)
              => LET p == nodes'[NextNode].history
                 IN  /\ p # NULL /\ NextNode \in {nodes'[p].successors[i] :
                                          i \in 1 .. Len(nodes'[p].successors)}
                     /\ HistOf(p) = LineHist(dict', l, ld.n)]_vars

C17_NoRollback ==
    [][(ret.op = "loading" /\ ret'.op = "read_arpa" /\ ret'.res < 0)
          => (nodes' = nodes /\ freelist' = freelist)]_vars

\* C17, the case: a load that failed after N-gram lines were accepted.
C17_Witness ==
    ret.op = "read_arpa" /\ ret.res < 0 /\ Len(nodes[root].successors) >= 2

\* C26: from the return of ngram_trie_init on, and after every
\* ngram_trie_read_arpa (an input that declares no order included), the
\* order t->n is at least 1, so that ngram_trie_ngram_v never cuts a
\* history to a negative length.
C26_OrderAtLeastOne == n >= 1

\* C27: ngram_trie_read_arpa reads the N-gram sections at the orders 1, 2,
\* 3, ... one by one: read_ngrams is called again only with the order
\* after the current one, never with an order that a marker skipped to, and
\* not at all once that order exceeds the highest order of the counts
\* block.
C27_OrderSequencing ==
    [][(ld.pc = "ngrams" /\ ld'.pc = "ngrams" /\ ld'.n # ld.n)
          => (ld'.n = ld.n + 1 /\ ld'.n <= n)]_vars

\* C28: on every input, well-formed, malformed or cut short, the load
\* comes to its end by returning 0 or a negative status: no line of a
\* section makes the history lookup of add_ngram_line run on for ever, and
\* no line ends the load in another way than by that return.
C28_LoadTerminates ==
    /\ ld.pc # "aborted"
    /\ ret.op = "read_arpa" => ret.res <= 0
    /\ \A l \in NgramLines :
          (FullLine(l) /\ ld.n >= 2
              /\ \A i \in 1 .. (ld.n - 1) : LineHist(dict, l, ld.n)[i] # BAD_S3WID)
             => ngram_trie_ngram_v(Trie, LineHist(dict, l, ld.n)[1],
                                   Tail(LineHist(dict, l, ld.n)), ld.n - 2).done

\* C38: the assertion nwords <= n + 2 of add_ngram_line holds for every
\* line that reaches it: a line of the order-n section with more than
\* n + 2 fields does not abort the process, the load returning a status
\* for it.
C38_FieldCountAssertion ==
    [][\A l \in NgramLines :
          (/\ ld.pc = "ngrams" /\ Len(l.toks) > ld.n + 2
           /\ read_ngrams(l))
              => (ld'.pc # "aborted" /\ ret'.op = "read_arpa")]_vars

\* The marker lines of the sections and the line \end\.
MarkerLines == {l \in SectionLines : l.kind \in {"marker", "end"}}

\* C31: in read_ngrams at order n, a line \k-grams: with k > n makes it
\* return k (the driver calls it again at order k) and inserts no node; a
\* line \k-grams: with k <= n is passed over, the section going on at order
\* n with what it had; the line \end\ makes it return 0 and
\* ngram_trie_read_arpa return 0.
C31_MarkerHandling ==
    [][\A l \in MarkerLines :
          read_ngrams(l) =>
              /\ nodes' = nodes /\ dict' = dict
              /\ (l.kind = "marker" /\ l.k > ld.n)
                    => (ld'.pc = "ngrams" /\ ld'.n = l.k /\ ret'.op = "loading")
              /\ (l.kind = "marker" /\ l.k <= ld.n)
                    => (ld' = ld /\ ret'.op = "loading")
              /\ l.kind = "end"
                    => (ret'.op = "read_arpa" /\ ret'.res = 0 /\ ld'.pc = "idle")]_vars

\* C31, the case: a load that went on to the 2-gram section at its marker,
\* took a bigram there, and ended with status 0 at \end\.
C31_Witness ==
    /\ ret.op = "read_arpa" /\ ret.res = 0
    /\ \E x \in Reach : Len(HistOf(x)) = 2

\* C33: the caller's dictionary is never added to in any state of the
\* load.  In a trie created without a dictionary, an N-gram line whose head
\* word is not in the dictionary has that word added, whatever becomes of
\* the line; a unigram line is then inserted with the new word, and a line
\* of a higher order is inserted only if each of its history words is in
\* the dictionary as well.
C33_GrowableDictionary ==
    [][/\ ~gendict => dict' = dict
       /\ \A l \in NgramLines :
             (/\ gendict /\ FullLine(l)
              /\ dict_wordid(dict, l.toks[ld.n + 1].s) = BAD_S3WID
              /\ read_ngrams(l))
                 => LET head == l.toks[ld.n + 1].s
                        inserted ==
                            /\ Len(nodes') = Len(nodes) + 1
                            /\ nodes'[NextNode].word = dict_wordid(dict', head)
                    IN  /\ dict' = Append(dict, head)
                        /\ ld.n = 1 => inserted
                        /\ inserted =>
                              \A i \in 1 .. (ld.n - 1) :
                                  LineHist(dict', l, ld.n)[i] # BAD_S3WID]_vars

\* C33, the case: in a trie created without a dictionary a bigram was
\* inserted whose head word has no unigram: the bigram line added it.
C33_Witness ==
    /\ gendict /\ Len(dict) >= 2
    /\ \E x \in Reach : /\ Len(HistOf(x)) = 2
                        /\ ChildrenWith(root, nodes[x].word) = {}

\* C33 as stated: in a trie created without a dictionary every N-gram line
\* whose head word is not in the dictionary has the word added and is
\* inserted; the caller's dictionary is never added to.
C33_HeadAddedLineInserted ==
    [][/\ ~gendict => dict' = dict
       /\ \A l \in NgramLines :
             (/\ gendict /\ FullLine(l)
              /\ dict_wordid(dict, l.toks[ld.n + 1].s) = BAD_S3WID
              /\ read_ngrams(l))
                 => LET head == l.toks[ld.n + 1].s
                    IN  /\ dict' = Append(dict, head)
                        /\ Len(nodes') = Len(nodes) + 1
                        /\ nodes'[NextNode].word = dict_wordid(dict', head)]_vars

\* The lines of the counts block that are neither blank nor of the form
\* "ngram <n>=<count>": a line that starts with "ngram " and lacks the '='
\* or the text after it, and a line of other text.
BadCountLines == {l \in CountLines : l.kind \in {"badcount", "fields"}}

\* C32: every such line makes ngram_trie_read_arpa return a negative
\* status, no N-gram node having been inserted.
\* Passing over a line leaves the loader where it was, so the statement
\* is put on the states: in no state can the loader read such a line and
\* do anything but end the load with an error.
C32_BadCountFatal ==
    \A l \in BadCountLines :
        ~ ENABLED (/\ read_ngram_counts(l)
                   /\ ~ (ret'.op = "read_arpa" /\ ret'.res < 0
                            /\ Len(nodes') = 1))

\* A model is loaded from a well-formed input and asked for probabilities.
PvNext ==
    \/ \E l \in WellFormedHeader : skip_arpa_header(l)
    \/ \E l \in WellFormedCounts : read_ngram_counts(l)
    \/ \E l \in WellFormedSection : read_ngrams(l)
    \/ \E w \in WordIds, hist \in Hists : ProbV(w, hist)

PvSpec == Init /\ [][PvNext]_vars

\* The backoff steps after which ngram_trie_ngram_v finds a node for w:
\* step j looks w up after the j oldest words of hist were dropped.
FoundAfter(w, hist) ==
    {j \in 0 .. Len(hist) :
        ngram_trie_ngram_v(Trie, w, hist, Len(hist) - j).node # NULL}

\* C30: ngram_trie_prob_v called with a history of L words, finding a node
\* after j backoff steps (0 <= j <= L), reports in n_used the value it
\* reports for j = 0, L + 1, less one for each step taken; it reports 0
\* when not even the unigram of the word is found after the L steps.
C30_UsagePerStep ==
    \A w \in WordIds, hist \in Hists :
        LET r == ngram_trie_prob_v(Trie, w, hist, Len(hist))
            J == FoundAfter(w, hist)
        IN  r.done =>
                /\ \A j \in J : (\A i \in J : j <= i)
                                    => r.n_used = Len(hist) + 1 - j
                /\ (ChildrenWith(root, w) = {} /\ J \subseteq {Len(hist)})
                      => r.n_used = 0

\* ----------------------------------------------- backoff weights
\* Unigram lines: a with a backoff weight, b and <unk> without one.
BwLines ==
    {Fields(<<NumM10, WordA, NumM07>>), Fields(<<NumM20, WordB>>),
     Fields(<<NumM30, WordUnk>>)}

\* A model of unigrams is loaded and asked for backoff weights.
BwNext ==
    \/ \E l \in WellFormedHeader : skip_arpa_header(l)
    \/ \E l \in WellFormedCounts : read_ngram_counts(l)
    \/ \E l \in BwLines \cup {Line("end", 0, 0, <<>>)} : read_ngrams(l)
    \/ \E w \in WordIds, hist \in Hists : BowtV(w, hist)

BwSpec == Init /\ [][BwNext]_vars

\* The weight of the history with head w and older words hist, read off
\* the trie: that of the node for (w | hist) when there is one, else that
\* of the history without its oldest word, and 0 when no word is left.
RECURSIVE BowtOf(_, _)
BowtOf(w, hist) ==
    IF PathNodes(w, hist) # {}
    THEN Unshift(nodes[CHOOSE x \in PathNodes(w, hist) : TRUE].log_bowt)
    ELSE IF hist # <<>> THEN BowtOf(w, SubSeq(hist, 1, Len(hist) - 1))
    ELSE 0

\* The head with each prefix of the older words has at most one node.
OneNodeEach(w, hist) ==
    \A k \in 0 .. Len(hist) : Cardinality(PathNodes(w, SubSeq(hist, 1, k))) <= 1

\* Every word of the dictionary has its unigram, once.
UnigramEach == \A v \in WordIds : Cardinality(ChildrenWith(root, v)) = 1

\* C29: ngram_trie_bowt_v on the history h_1 (newest, the argument w), ...,
\* h_k (oldest) returns the log_bowt, shifted back, of the node for the full
\* history when there is one; else it tries again without the oldest word,
\* h_1 staying the head, until a node is found, and returns 0 when no word
\* is left (in a model that has the unigram of every word, and for
\* histories within its order).
C29_BowtRecursion ==
    \A w \in WordIds, hist \in Hists :
        (Len(hist) <= n - 1 /\ UnigramEach /\ OneNodeEach(w, hist))
            => ngram_trie_bowt_v(Trie, w, hist, Len(hist)).val = BowtOf(w, hist)

\* ------------------------------------------------------ counts block
\* Lines of a counts block that may declare any order from 0 on, in any
\* sequence and more than once, with a count of 2 or 3.
CtLines ==
    {Line("count", k, c, <<>>) : k \in 0 .. MaxOrder, c \in {2, 3}}
        \cup {Line("badcount", 0, 0, <<>>), Line("eof", 0, 0, <<>>),
              Fields(<<WordA>>), Blank}

\* The header and the counts block of an input are read.
CtNext ==
    \/ \E l \in HeaderLines : skip_arpa_header(l)
    \/ \E l \in CtLines : read_ngram_counts(l)

CtSpec == Init /\ [][CtNext]_vars

\* C25: each line "ngram <k>=<c>" of the counts block leaves c at index k
\* and the counts of the other orders as they were, and when
\* read_ngram_counts finishes on the blank line, whatever the block held
\* (a line "ngram 0=<c>" included), counts[0] is 1 and the order returned
\* is the highest order declared.
C25_ZeroGramCount ==
    [][\A l \in CtLines :
          read_ngram_counts(l) =>
              /\ l.kind = "count" =>
                    /\ counts'[l.k + 1] = l.c
                    /\ Len(counts') = IF l.k + 1 > Len(counts) THEN l.k + 1
                                      ELSE Len(counts)
                    /\ \A j \in 1 .. Len(counts) :
                          j # l.k + 1 => counts'[j] = counts[j]
              /\ l.kind = "blank" =>
                    /\ counts'[1] = 1
                    /\ n' = Len(counts') - 1]_vars

\* ------------------------------------------------------ quantization
\* logmath_log(lmath, MIN_LOGPROB) of the log-math contexts tried: bases
\* 1.0001 and 1.0003, a coarse base whose floor fits as it is, and the
\* values on either side of the 16-bit limit and of its double.
QzFloors == {-460540, -153529, -65537, -65536, -32769, -32768, -23049}

QzInit == \E d_given \in BOOLEAN, m \in QzFloors : ngram_trie_init(d_given, m)

\* A numeric field whose log-math value is v (its text is "n").
Num(v) == Tok(<<110>>, v)

\* Log values between the floor and 0: both ends, the value next to the
\* floor, and the values one unit of the shift below 0 and just above
\* that.
QzValues ==
    {v \in {lmath, lmath + 1, -Pow2(shift), -Pow2(shift) + 1, 0} :
        lmath <= v /\ v <= 0}

\* Unigram lines for the word a: any of the values as the probability and,
\* with the floor as the probability, the floor or the value next to it
\* as the backoff weight.
QzLines ==
    {Fields(<<Num(v), WordA>>) : v \in QzValues}
        \cup {Fields(<<Num(lmath), WordA, Num(b)>>) : b \in {lmath, lmath + 1}}

\* The unigram section of an input is loaded into a trie whose log-math
\* has any of the floors.
QzNext ==
    \/ \E l \in WellFormedHeader : skip_arpa_header(l)
    \/ \E l \in {Line("count", 1, 3, <<>>), Blank} : read_ngram_counts(l)
    \/ \E l \in QzLines \cup {Line("end", 0, 0, <<>>)} : read_ngrams(l)

QzSpec == QzInit /\ [][QzNext]_vars

Int16 == Int16Min .. 32767

\* C23: after ngram_trie_init with the floor m = logmath_log(lmath,
\* MIN_LOGPROB) <= 0, zero is m shifted right arithmetically by shift, zero
\* lies in [-32768, 32767], and shift is the least number of halvings for
\* which it does (0 when m fits as it is).
C23_ShiftZero ==
    /\ shift >= 0
    /\ zero = ShiftRight(lmath, shift)
    /\ zero \in Int16
    /\ \A k \in 0 .. (shift - 1) : ShiftRight(lmath, k) \notin Int16

\* C23, the case: right after ngram_trie_init, a floor that needed two
\* halvings or more.
C23_Witness == ret.op = "init" /\ shift >= 2 /\ lmath < 4 * Int16Min

\* C24: for every log value v with floor <= v <= 0 that a line carries as
\* its probability or its backoff weight, the loader stores v >> shift
\* untruncated in the 16-bit field, shifting the stored value back gives a
\* value less than 2^shift away from v, and the floor itself is stored as
\* zero.
C24_QuantizationBoundary ==
    [][\A l \in QzLines :
          (read_ngrams(l) /\ Len(nodes') = Len(nodes) + 1)
              => LET Stored(v, st) ==
                         /\ st \in Int16
                         /\ st * Pow2(shift) <= v
                         /\ v < (st + 1) * Pow2(shift)
                         /\ v = lmath => st = zero
                 IN  /\ Stored(l.toks[1].v, nodes'[NextNode].log_prob)
                     /\ Len(l.toks) = 3 =>
                            Stored(l.toks[3].v, nodes'[NextNode].log_bowt)]_vars

\* C24, the case: the loader has stored the floor of a log-math whose
\* floor needs a shift, as a probability and as a backoff weight.
C24_Witness ==
    /\ shift >= 1
    /\ \E x \in Children(root) :
          nodes[x].log_prob = zero /\ nodes[x].log_bowt = zero

\* --------------------------------------------------------- iterators
\* garray_ent(arr, i): the entry at position i, NULL when there is none.
garray_ent(arr, i) == IF i < Len(arr) THEN arr[i + 1] ELSE NULL

\* The loop of ngram_trie_ngrams: from h, the first successor k times;
\* NULL as soon as a level has none.
RECURSIVE first_ngram(_, _, _)
first_ngram(t, h, k) ==
    IF k = 0 THEN h
    ELSE LET c == garray_ent(t.nodes[h].successors, 0)
         IN  IF c = NULL THEN NULL ELSE first_ngram(t, c, k - 1)

NewItor(h, made, arg) ==
    [live |-> TRUE, cur |-> h, pos |-> 0, nostop |-> FALSE,
     got |-> FALSE, made |-> made, arg |-> arg, seen |-> <<>>]

iter_fields == <<nodes, freelist, trie_fields, ld, refcount, life, lmath>>

\* ngram_trie_ngrams(t, k): an iterator over the N-grams of order k, or
\* NULL.
ngram_trie_ngrams(k) ==
    /\ CanCall /\ itor = NoItor
    /\ LET h == first_ngram(Trie, root, k - 1)
       IN  /\ itor' = IF h = NULL
                      THEN [NoItor EXCEPT !.made = "ngrams", !.arg = k]
                      ELSE NewItor(h, "ngrams", k)
           /\ ret' = Ret("ngrams", NULL, NoWord, k, h, 0)
    /\ UNCHANGED iter_fields

\* ngram_trie_successors(t, h): an iterator over the successors of h.
ngram_trie_successors(h) ==
    /\ CanCall /\ itor = NoItor
    /\ itor' = NewItor(h, "successors", h)
    /\ ret' = Ret("successors", h, NoWord, 0, h, 0)
    /\ UNCHANGED iter_fields

\* ngram_trie_iter_get(itor).
ngram_trie_iter_get ==
    /\ itor.live /\ ~itor.got
    /\ LET arr == nodes[itor.cur].successors
           ng == IF itor.pos >= Len(arr) THEN NULL ELSE garray_ent(arr, itor.pos)
       IN  /\ itor' = [itor EXCEPT !.got = TRUE,
                          !.seen = IF ng = NULL THEN @ ELSE Append(@, ng)]
           /\ ret' = Ret("iter_get", itor.cur, NoWord, itor.pos, ng, 0)
    /\ UNCHANGED iter_fields

\* ngram_trie_next_node(t, ng): the node after ng at the depth of ng.  ok
\* is FALSE when one of the assertions fails; past is TRUE when the node
\* was read from position 0 of an array that has no entry.
RECURSIVE ngram_trie_next_node(_, _)
ngram_trie_next_node(t, ng) ==
    LET h == t.nodes[ng].history
    IN  IF h = NULL THEN [node |-> NULL, ok |-> TRUE, past |-> FALSE]
        ELSE LET arr == t.nodes[h].successors
                 pos == garray_bisect_left(t, arr, t.nodes[ng].word)
             IN  IF pos >= Len(arr) \/ garray_ent(arr, pos) # ng
                 THEN [node |-> NULL, ok |-> FALSE, past |-> FALSE]
                 ELSE IF pos + 1 = Len(arr)
                 THEN LET up == ngram_trie_next_node(t, h)
                      IN  IF ~up.ok \/ up.node = NULL THEN up
                          ELSE [node |-> garray_ent(t.nodes[up.node].successors, 0),
                                ok |-> TRUE,
                                past |-> Len(t.nodes[up.node].successors) = 0]
                 ELSE [node |-> garray_ent(arr, pos + 1), ok |-> TRUE,
                       past |-> FALSE]

\* A variant of ngram_trie_iter_next that ends the enumeration one
\* position late.
iter_next_late ==
    /\ itor.live /\ itor.got
    /\ LET pos == itor.pos + 1
           freed == [itor EXCEPT !.live = FALSE, !.pos = pos, !.got = FALSE]
           nx == ngram_trie_next_node(Trie, itor.cur)
       IN  IF pos > Len(nodes[itor.cur].successors)
           THEN IF itor.nostop
                THEN IF ~nx.ok
                     THEN /\ itor' = freed
                          /\ ret' = Ret("abort", itor.cur, NoWord, pos, NULL, 0)
                     ELSE IF nx.node = NULL
                     THEN /\ itor' = [freed EXCEPT !.cur = NULL]
                          /\ ret' = Ret("iter_next", NULL, NoWord, pos, NULL, 0)
                     ELSE /\ itor' = [itor EXCEPT !.cur = nx.node, !.pos = 0,
                                         !.got = FALSE]
                          /\ ret' = Ret("iter_next", nx.node, NoWord, 0, nx.node, 0)
                ELSE /\ itor' = freed
                     /\ ret' = Ret("iter_next", itor.cur, NoWord, pos, NULL, 0)
           ELSE /\ itor' = [itor EXCEPT !.pos = pos, !.got = FALSE]
                /\ ret' = Ret("iter_next", itor.cur, NoWord, pos, itor.cur, 0)
    /\ UNCHANGED iter_fields

\* ngram_trie_iter_next(itor): the iterator moved on, or freed and NULL
\* returned.
ngram_trie_iter_next ==
    /\ itor.live /\ itor.got
    /\ LET pos == itor.pos + 1
           freed == [itor EXCEPT !.live = FALSE, !.pos = pos, !.got = FALSE]
           nx == ngram_trie_next_node(Trie, itor.cur)
       IN  IF pos >= Len(nodes[itor.cur].successors)
           THEN IF itor.nostop
                THEN IF ~nx.ok
                     THEN /\ itor' = freed
                          /\ ret' = Ret("abort", itor.cur, NoWord, pos, NULL, 0)
                     ELSE IF nx.node = NULL
                     THEN /\ itor' = [freed EXCEPT !.cur = NULL]
                          /\ ret' = Ret("iter_next", NULL, NoWord, pos, NULL, 0)
                     ELSE /\ itor' = [itor EXCEPT !.cur = nx.node, !.pos = 0,
                                         !.got = FALSE]
                          /\ ret' = Ret("iter_next", nx.node, NoWord, 0, nx.node, 0)
                ELSE /\ itor' = freed
                     /\ ret' = Ret("iter_next", itor.cur, NoWord, pos, NULL, 0)
           ELSE /\ itor' = [itor EXCEPT !.pos = pos, !.got = FALSE]
                /\ ret' = Ret("iter_next", itor.cur, NoWord, pos, itor.cur, 0)
    /\ UNCHANGED iter_fields

\* The trie is built, then enumerated.
ItNext ==
    \/ \E h \in Reach, w \in WordIds : itor = NoItor /\ ngram_trie_add_successor(h, w)
    \/ \E k \in 1 .. MaxOrder : ngram_trie_ngrams(k)
    \/ \E h \in Reach : ngram_trie_successors(h)
    \/ ngram_trie_iter_get
    \/ ngram_trie_iter_next

ItSpec == Init /\ [][ItNext]_vars

\* The nodes k levels below the root.
DepthNodes(k) == {x \in Reach \ {root} : Len(HistOf(x)) = k}

SeqSet(q) == {q[i] : i \in 1 .. Len(q)}

\* C18: when the enumeration started by ngram_trie_ngrams(t, k) has come
\* to its end, ngram_trie_iter_get has returned every node at depth k,
\* across all histories, exactly once.
C18_OrderEnumeration ==
    (itor.made = "ngrams" /\ ~itor.live)
        => /\ SeqSet(itor.seen) = DepthNodes(itor.arg)
           /\ Len(itor.seen) = Cardinality(DepthNodes(itor.arg))

\* C19: the enumeration started by ngram_trie_successors(t, h) on a node h
\* with m >= 1 children returns the children of h in the order of the
\* successor array, one per position and no other node, and it is the m-th
\* call of ngram_trie_iter_next that frees the iterator and returns NULL.
C19_BoundedEnumeration ==
    (itor.made = "successors" /\ Len(nodes[itor.arg].successors) >= 1)
        => LET arr == nodes[itor.arg].successors
           IN  /\ itor.seen = SubSeq(arr, 1, Len(itor.seen))
               /\ itor.live =>
                     /\ itor.cur = itor.arg /\ itor.pos < Len(arr)
                     /\ Len(itor.seen) = itor.pos + (IF itor.got THEN 1 ELSE 0)
               /\ ~itor.live => (itor.seen = arr /\ itor.pos = Len(arr))

\* C19, the case: the enumeration of a node with two or more children has
\* ended.
C19_Witness ==
    itor.made = "successors" /\ ~itor.live /\ Len(nodes[itor.arg].successors) >= 2

\* The nodes from h down through the first successors, k levels at most,
\* ending early at a node that has none.
RECURSIVE FirstPath(_, _)
FirstPath(h, k) ==
    IF k = 0 \/ Len(nodes[h].successors) = 0 THEN <<h>>
    ELSE <<h>> \o FirstPath(nodes[h].successors[1], k - 1)

\* C35: ngram_trie_ngrams(t, k) goes from the root through the first
\* successor k - 1 times.  It returns NULL, no iterator made, whenever a
\* node on that path has no successors, the root of an empty trie
\* included; otherwise the iterator is at the first (k-1)-gram, position 0.
C35_FirstNgram ==
    [][\A k \in 1 .. MaxOrder :
          ngram_trie_ngrams(k)
              => LET path == FirstPath(root, k - 1)
                 IN  IF \E i \in 1 .. Len(path) : Children(path[i]) = {}
                     THEN itor'.made = "ngrams" /\ ~itor'.live /\ ret'.res = NULL
                     ELSE /\ itor'.live /\ itor'.pos = 0
                          /\ itor'.cur = path[k]]_vars

\* ------------------------------------------- iterators, up and down
\* ngram_trie_iter_down(itor): the cursor goes to the successor at the
\* current position.  The assertion fails when there is none; the iterator
\* is freed and NULL returned when that successor has no successors.  ret.h
\* keeps the node the cursor was at.  The nodes listed as returned are
\* those of the array the cursor is at, so the list starts anew.
ngram_trie_iter_down ==
    /\ itor.live
    /\ LET c == garray_ent(nodes[itor.cur].successors, itor.pos)
           freed == [itor EXCEPT !.live = FALSE, !.cur = c, !.got = FALSE, !.seen = <<>>]
       IN  IF c = NULL
           THEN /\ itor' = freed
                /\ ret' = Ret("abort", itor.cur, NoWord, itor.pos, NULL, 0)
           ELSE IF Len(nodes[c].successors) = 0
           THEN /\ itor' = freed
                /\ ret' = Ret("iter_down", itor.cur, NoWord, itor.pos, NULL, 0)
           ELSE /\ itor' = [itor EXCEPT !.cur = c, !.pos = 0, !.got = FALSE, !.seen = <<>>]
                /\ ret' = Ret("iter_down", itor.cur, NoWord, itor.pos, c, 0)
    /\ UNCHANGED iter_fields

\* ngram_trie_iter_up(itor): the cursor goes to its history; the iterator
\* is freed and NULL returned when that is NULL.  The position is left as
\* it is.
ngram_trie_iter_up ==
    /\ itor.live
    /\ LET p == nodes[itor.cur].history
       IN  /\ itor' = IF p = NULL
                      THEN [itor EXCEPT !.live = FALSE, !.cur = NULL, !.got = FALSE, !.seen = <<>>]
                      ELSE [itor EXCEPT !.cur = p, !.got = FALSE, !.seen = <<>>]
           /\ ret' = Ret("iter_up", itor.cur, NoWord, itor.pos, p, 0)
    /\ UNCHANGED iter_fields

\* ngram_trie_iter_get_parent(itor).
ngram_trie_iter_get_parent ==
    /\ itor.live
    /\ ret' = Ret("iter_get_parent", itor.cur, NoWord, itor.pos, itor.cur, 0)
    /\ UNCHANGED <<itor, iter_fields>>

\* A trie is built through both insertion functions, then walked with an
\* iterator over the successors of one of its nodes.
UdNext ==
    \/ \E h \in Reach, w \in WordIds : itor = NoItor /\ ngram_trie_add_successor(h, w)
    \/ \E h \in Reach, w \in WordIds :
          itor = NoItor /\ ngram_trie_add_successor_ngram(h, w)
    \/ \E h \in Reach : ngram_trie_successors(h)
    \/ ngram_trie_iter_get
    \/ ngram_trie_iter_next
    \/ ngram_trie_iter_down
    \/ ngram_trie_iter_up
    \/ ngram_trie_iter_get_parent

UdSpec == Init /\ [][UdNext]_vars

\* The node in whose successor array x is, NULL for the root.
ParentOf(x) ==
    IF \E p \in Reach : x \in Children(p)
    THEN CHOOSE p \in Reach : x \in Children(p)
    ELSE NULL

\* C34: with the iterator at a position that holds a child,
\* ngram_trie_iter_down moves the cursor to that child and sets the
\* position to 0, or frees the iterator and returns NULL when the child has
\* no children; ngram_trie_iter_up moves the cursor to the node above it
\* and frees the iterator (returns NULL) exactly when the cursor was at the
\* root; an ascent straight after a successful descent puts the cursor back
\* where it was, and ngram_trie_iter_get_parent returns the cursor.
C34_DownUp ==
    [][/\ (/\ itor.live /\ itor.pos < Len(nodes[itor.cur].successors)
           /\ ngram_trie_iter_down)
          => LET c == nodes[itor.cur].successors[itor.pos + 1]
             IN  IF Children(c) = {}
                 THEN ~itor'.live /\ ret'.res = NULL
                 ELSE itor'.live /\ itor'.cur = c /\ itor'.pos = 0
                         /\ ret'.res = c
       /\ ngram_trie_iter_up
          => /\ ~itor'.live <=> itor.cur = root
             /\ itor'.live => itor'.cur = ParentOf(itor.cur)
             /\ (ret.op = "iter_down" /\ ret.res # NULL)
                   => (itor'.live /\ itor'.cur = ret.h)
       /\ ngram_trie_iter_get_parent => ret'.res = itor.cur]_vars

\* ------------------------------------------- the cross-subtree step
\* ngram_trie_next_node applied to a node of the trie.  (The function is
\* static and is called by ngram_trie_iter_next for an iterator with
\* nostop set, which neither ngram_trie_ngrams nor ngram_trie_successors
\* makes: here it is applied to every node.)
NextNodeStep(ng) ==
    /\ CanCall
    /\ LET r == ngram_trie_next_node(Trie, ng)
       IN  ret' = Ret(IF r.ok THEN "next_node" ELSE "abort", ng, nodes[ng].word,
                      0, r.node, 0)
    /\ UNCHANGED <<nodes, freelist, trie_fields, ld, handles>>

\* A trie is built with ngram_trie_add_successor, words repeated under one
\* parent included, and the step is taken from its nodes.
NnNext ==
    \/ \E h \in Reach, w \in WordIds : ngram_trie_add_successor(h, w)
    \/ \E ng \in Reach \ {root} : NextNodeStep(ng)

NnSpec == Init /\ [][NnNext]_vars

\* C39: for every node ng but the root, of every trie built by
\* ngram_trie_add_successor, the two assertions of ngram_trie_next_node
\* hold (the bisect-left position of ng is inside the successor array of
\* its history and holds ng), and the node returned is never read from
\* position 0 of an array without entries.
C39_NextNodeAssertions ==
    ret.op \in {"next_node", "abort"}
        => /\ ret.op # "abort"
           /\ ~ngram_trie_next_node(Trie, ret.h).past

\* ---------------------------------------------------- reference count
\* ngram_trie_retain(t).
ngram_trie_retain ==
    /\ CanCall /\ life.retains < MaxRefs
    /\ refcount' = refcount + 1
    /\ life' = [life EXCEPT !.retains = @ + 1]
    /\ ret' = Ret("retain", root, NoWord, 0, root, 0)
    /\ UNCHANGED <<nodes, freelist, trie_fields, ld, itor, lmath>>

\* A variant of ngram_trie_free that tears the trie down while one
\* reference is left.
ngram_trie_free_early(t_null) ==
    /\ ld.pc = "idle"
    /\ IF t_null
       THEN /\ ret' = Ret("free", NULL, NoWord, 0, 0, 0)
            /\ UNCHANGED <<refcount, life>>
       ELSE /\ life.t
            /\ refcount' = refcount - 1
            /\ IF refcount' > 1
               THEN /\ life' = [life EXCEPT !.releases = @ + 1]
                    /\ ret' = Ret("free", root, NoWord, 0, refcount', 0)
               ELSE /\ life' = [life EXCEPT !.t = FALSE, !.dict = FALSE,
                                   !.lmath = FALSE, !.releases = @ + 1]
                    /\ ret' = Ret("free", root, NoWord, 0, 0, 0)
    /\ UNCHANGED <<nodes, freelist, trie_fields, ld, itor, lmath>>

\* ngram_trie_free(t), t being NULL or the trie: the count is decremented
\* and returned while it stays positive; at zero the dictionary and the
\* log-math are released, the trie is freed and 0 is returned.  Nothing
\* is done with t->node_alloc and t->counts.
ngram_trie_free(t_null) ==
    /\ ld.pc = "idle"
    /\ IF t_null
       THEN /\ ret' = Ret("free", NULL, NoWord, 0, 0, 0)
            /\ UNCHANGED <<refcount, life>>
       ELSE /\ life.t
            /\ refcount' = refcount - 1
            /\ IF refcount' > 0
               THEN /\ life' = [life EXCEPT !.releases = @ + 1]
                    /\ ret' = Ret("free", root, NoWord, 0, refcount', 0)
               ELSE /\ life' = [life EXCEPT !.t = FALSE, !.dict = FALSE,
                                   !.lmath = FALSE, !.releases = @ + 1]
                    /\ ret' = Ret("free", root, NoWord, 0, 0, 0)
    /\ UNCHANGED <<nodes, freelist, trie_fields, ld, itor, lmath>>

\* The trie is built while it is retained and released.
RcNext ==
    \/ \E h \in Reach, w \in WordIds : ngram_trie_add_successor(h, w)
    \/ ngram_trie_retain
    \/ \E t_null \in BOOLEAN : ngram_trie_free(t_null)

RcSpec == Init /\ [][RcNext]_vars

\* What the counts of retains and releases say about the trie: it is held,
\* with its dictionary and log-math references, as long as the releases do
\* not outnumber the retains, and torn down by the release after that.
LifeOk ==
    /\ life.t <=> life.releases <= life.retains
    /\ life.t => (life.dict /\ life.lmath
                    /\ refcount = 1 + life.retains - life.releases)
    /\ ~life.t => (~life.dict /\ ~life.lmath
                     /\ life.releases = life.retains + 1)

\* C20: from the count 1 of a new trie, after r retains and f <= r
\* releases the trie and its dictionary and log-math references are still
\* held; each of those releases returns the remaining count, which is
\* positive; the (r+1)-th release tears the trie down and returns 0;
\* releasing NULL returns 0 and changes nothing.
C20_Lifetime ==
    [][/\ LifeOk'
       /\ (ret'.op = "free" /\ ret'.h = NULL)
             => (ret'.res = 0 /\ UNCHANGED <<refcount, life, nodes, dict>>)
       /\ (ret'.op = "free" /\ ret'.h # NULL)
             => /\ life'.releases = life.releases + 1
                /\ ret'.res = IF life'.t THEN refcount' ELSE 0
                /\ life'.t => ret'.res > 0]_vars

\* C20, the case: a trie retained twice has been torn down.
C20_Witness == ~life.t /\ life.retains >= 2

\* C21: once the release that brings the count to zero has returned, the
\* dictionary reference, the log-math reference, the node allocator with
\* its nodes and their successor arrays, and the counts array have all been
\* released.
C21_CompleteTeardown ==
    ~life.t => (~life.dict /\ ~life.lmath /\ ~life.node_alloc /\ ~life.counts)

====
